---- MODULE Spec2Model ----
(***************************************************************************)
(* Model of plugins/rados/rados.c: the AIO completion bridge (one async    *)
(* slot: pipe, mutex, rid, current completion), the operation primitives   *)
(* (stat, delete, put, read) and the WebDAV request dispatcher, running    *)
(* against one object key of one pool.  The store's callback thread is a   *)
(* separate process interleaved with the worker.                           *)
(***************************************************************************)
EXTENDS Integers, Sequences, FiniteSets, TLC

(* ------------------------------ bounds --------------------------------- *)
\* number of uwsgi_rados_set_completion calls explored in one run
MaxArm == 2
\* request bodies have 0..MaxBody bytes
MaxBody == 3
\* UMIN(remains, 32768) of uwsgi_rados_put, scaled down to the body sizes
PutChunk == 2
\* UMIN(remains, 8192) of uwsgi_rados_read, scaled down likewise
ReadChunk == 2
\* descriptors the process may hold open for slot pipes (RLIMIT_NOFILE)
MaxFds == 2

(* ----------------------------- constants ------------------------------- *)
ENOENT == 2
EEXIST == 17
EIO == 5

Absent == [present |-> FALSE, data |-> <<>>, mtime |-> 0]

\* the body of a request of n bytes: byte i carries the value i
Body(n) == [i \in 1..n |-> i]

Min(a, b) == IF a < b THEN a ELSE b

FdNums == 3..(2 + MaxFds)

\* ua->mountpoint of the mount, and the path_info values requests carry: "/",
\* the mount's root "/r/" and the object "/r/foo"
Mountpoint == <<"/", "r">>
RootPath == <<"/">>
MountRoot == <<"/", "r", "/">>
ObjPath == <<"/", "r", "/", "foo">>

\* filename: path_info without the mountpoint when it is longer than the
\* mountpoint and begins with it, else path_info as it is
Filename(path) ==
  IF Len(path) > Len(Mountpoint)
     /\ SubSeq(path, 1, Len(Mountpoint)) = Mountpoint
  THEN SubSeq(path, Len(Mountpoint) + 1, Len(path))
  ELSE path

\* the key whose object the model follows
ObjName == Filename(ObjPath)

ExtMethods == {"PUT", "DELETE", "MKCOL", "PROPFIND"}
Methods == {"OPTIONS", "GET", "HEAD"} \cup ExtMethods \cup {"LOCK"}

VARIABLES
  async,       \* uwsgi.async > 0
  fds,         \* urio->fds
  rid,         \* urio->rid
  mutex,       \* urio->mutex: 0 free, k held by the callback of record k
  comp,        \* urio->comp: index of the completion in recs, 0 none
  openFds,     \* descriptors currently open in the process
  pipeBuf,     \* bytes in the pipe fds designates, each tagged by its writer
               \* and by whether the writer's request had already returned
  recs,        \* one entry per set_completion call: urcb, completion, AIO
  obj,         \* the object of the addressed key in the pool
  pools,       \* pools created by MKCOL
  pc,          \* position of the worker in uwsgi_rados_request
  req,         \* the request being served
  prim,        \* primitive in progress
  urcb,        \* the primitive's urcb: index in recs, 0 NULL
  iret,        \* result of the rados_aio_* issue call
  ret,         \* ret of uwsgi_rados_request
  stat_size,
  stat_mtime,
  remains,
  off,
  body_len,
  buf,         \* char buf[8192] of uwsgi_rados_read
  status,      \* response status, 0 when none was prepared
  allowHdr,    \* Allow header of the response
  respBody,    \* response body written so far
  plist,       \* PROPFIND: objects still to be listed
  otherFds,    \* descriptors of the pipe of another slot's request
  otherBuf,    \* bytes this slot's callbacks wrote into that pipe
  evs          \* calls the primitive in progress has made on the bridge

slotVars == <<fds, rid, mutex, comp, openFds, pipeBuf>>
storeVars == <<obj, pools>>
otherVars == <<otherFds, otherBuf>>
reqVars == <<pc, req, prim, urcb, iret, ret, stat_size, stat_mtime, remains,
             off, body_len, buf, status, allowHdr, respBody, plist, evs>>
vars == <<async, slotVars, recs, storeVars, reqVars, otherVars>>

NoReq == [method |-> "", allow |-> {}, root |-> FALSE, path |-> ObjPath,
          ims_len |-> 0,
          ims |-> 0, depth |-> 0, post_cl |-> 0, early |-> "ok"]

\* Requests the host can hand to the handler.  The handler reads only the
\* permission flag of the request's own method (all four for OPTIONS), the
\* body only of a permitted PUT (a refused PUT carries a full body that is
\* never read), If-Modified-Since only past the stat, and Depth only for
\* PROPFIND of "/": the other fields are left at their defaults.  root says
\* that path_info is "/" (length 1); the mount's root "/r/" is requested
\* with PROPFIND only, so that nothing is stored under the key "/".
Requests ==
  LET Perm(m) == IF m = "OPTIONS" THEN SUBSET ExtMethods
                 ELSE IF m \in ExtMethods THEN {{}, {m}} ELSE {{}}
      Ims(m, r) == IF m \in {"GET", "HEAD", "PROPFIND", "LOCK"} /\ ~r
                   THEN {<<0, 0>>, <<1, 0>>, <<1, 1>>} ELSE {<<0, 0>>}
      Depth(m, r) == IF m = "PROPFIND" /\ r THEN {0, 1} ELSE {0}
      Cl(m, r, al) == IF m = "PUT" /\ ~r
                      THEN IF "PUT" \in al THEN 0..MaxBody ELSE {MaxBody}
                      ELSE {0}
  IN { q \in [method : Methods, allow : SUBSET ExtMethods, root : BOOLEAN,
              path : {RootPath, MountRoot, ObjPath},
              ims_len : {0, 1}, ims : {0, 1}, depth : {0, 1},
              post_cl : 0..MaxBody, early : {"ok"}] :
         /\ q.allow \in Perm(q.method)
         /\ q.root <=> (Len(q.path) = 1 /\ q.path[1] = "/")
         /\ q.path = MountRoot => (q.method = "PROPFIND" /\ q.ims_len = 0)
         /\ <<q.ims_len, q.ims>> \in Ims(q.method, q.root)
         /\ q.depth \in Depth(q.method, q.root)
         /\ q.post_cl \in Cl(q.method, q.root, q.allow) }
     \cup { [NoReq EXCEPT !.early = e] : e \in {"empty", "nopath", "noapp"} }

(* ------------------------------ the store ------------------------------ *)
Obj(d) == [present |-> TRUE, data |-> d, mtime |-> 1]

StatOp == [kind |-> "stat", key |-> ObjName, data |-> <<>>, len |-> 0,
           off |-> 0]
RemoveOp == [kind |-> "remove", key |-> ObjName, data |-> <<>>, len |-> 0,
             off |-> 0]
WriteFullOp(d) == [kind |-> "write_full", key |-> ObjName, data |-> d,
                   len |-> Len(d), off |-> 0]
ReadOp(n, o) == [kind |-> "read", key |-> ObjName, data |-> <<>>, len |-> n,
                 off |-> o]

\* bytes o+1 .. o+n of d, as far as d has them
Slice(d, o, n) == SubSeq(d, o + 1, Min(o + n, Len(d)))

\* what the store answers to op on object o: return value, object afterwards,
\* and the outputs (size, mtime of a stat; bytes of a read)
Apply(op, o) ==
  CASE op.kind = "stat" ->
         IF o.present
         THEN [rv |-> 0, obj |-> o, size |-> Len(o.data), mtime |-> o.mtime,
               data |-> <<>>, out |-> TRUE]
         ELSE [rv |-> -ENOENT, obj |-> o, size |-> 0, mtime |-> 0,
               data |-> <<>>, out |-> FALSE]
    [] op.kind = "remove" ->
         [rv |-> IF o.present THEN 0 ELSE -ENOENT, obj |-> Absent, size |-> 0,
          mtime |-> 0, data |-> <<>>, out |-> FALSE]
    [] op.kind = "write_full" ->
         [rv |-> 0, obj |-> Obj(op.data), size |-> 0, mtime |-> 0,
          data |-> <<>>, out |-> FALSE]
    [] op.kind = "read" ->
         IF o.present
         THEN [rv |-> Len(Slice(o.data, op.off, op.len)), obj |-> o,
               size |-> 0, mtime |-> 0,
               data |-> Slice(o.data, op.off, op.len), out |-> TRUE]
         ELSE [rv |-> -ENOENT, obj |-> o, size |-> 0, mtime |-> 0,
               data |-> <<>>, out |-> FALSE]

\* the store refusing op (I/O error): nothing changes
Refuse(o) == [rv |-> -EIO, obj |-> o, size |-> 0, mtime |-> 0, data |-> <<>>,
              out |-> FALSE]

Outcomes(op, o) == {Apply(op, o), Refuse(o)}

(* ------------------------------- Init ---------------------------------- *)
Init ==
  /\ async \in BOOLEAN
  /\ fds = <<-1, -1>>
  /\ rid = 0
  /\ mutex = 0
  /\ comp = 0
  /\ openFds = {}
  /\ pipeBuf = <<>>
  /\ recs = <<>>
  /\ obj \in {Absent, Obj(Body(MaxBody))}
  /\ pools = {}
  /\ pc = "idle"
  /\ req = NoReq
  /\ prim = "none"
  /\ urcb = 0
  /\ iret = 0
  /\ ret = -1
  /\ stat_size = 0
  /\ stat_mtime = 0
  /\ remains = 0
  /\ off = 0
  /\ body_len = 0
  /\ buf = <<>>
  /\ status = 0
  /\ allowHdr = <<>>
  /\ respBody = <<>>
  /\ plist = <<>>
  /\ evs = <<>>
  /\ otherFds = {}
  /\ otherBuf = <<>>

Alive == pc # "crashed"

\* the two lowest descriptors not open, as pipe() hands them out
FreeFds == FdNums \ openFds
LowestFree(S) == CHOOSE x \in S : \A y \in S : x <= y

\* the write end of the pipe made of the descriptors S, -1 when S is empty
WriteEnd(S) == IF S = {} THEN -1 ELSE CHOOSE x \in S : \A y \in S : y <= x

(* -------------------------- the dispatcher ----------------------------- *)
\* the handler leaves with the response prepared: uwsgi_rados_request returns
Leave(st) ==
  /\ pc' = "done"
  /\ status' = st

\* call a primitive: uwsgi_rados_async_stat, _delete, a chunk of _put, _read
Call(p) ==
  /\ pc' = "call"
  /\ prim' = p

\* a pool creation that does not see the pool that exists
PoolCreateBlind(name) == {[rv |-> 0, pools |-> pools \cup {name}]}

\* rados_pool_create(urmp->cluster, name): the pool exists, is created, or
\* the cluster refuses
PoolCreate(name) ==
  IF name \in pools
  THEN {[rv |-> -EEXIST, pools |-> pools]}
  ELSE {[rv |-> 0, pools |-> pools \cup {name}], [rv |-> -EIO, pools |-> pools]}

\* an Allow header that advertises every method
AllowHeaderAll(allow) ==
  <<"OPTIONS", "GET", "HEAD", "PUT", "DELETE", "MKCOL", "PROPFIND">>

\* the Allow header of OPTIONS, built by appending
AllowHeader(allow) ==
  <<"OPTIONS", "GET", "HEAD">>
    \o (IF "PUT" \in allow THEN <<"PUT">> ELSE <<>>)
    \o (IF "DELETE" \in allow THEN <<"DELETE">> ELSE <<>>)
    \o (IF "MKCOL" \in allow THEN <<"MKCOL">> ELSE <<>>)
    \o (IF "PROPFIND" \in allow THEN <<"PROPFIND">> ELSE <<>>)

\* goto end with the status st
GotoEnd(st) ==
  /\ pc' = "end"
  /\ status' = st

\* names rados_objects_list_next yields for the pool
Listing == IF obj.present THEN <<"foo">> ELSE <<>>

\* the object the pool holds under key, and the pool's object under
\* ObjName after an operation on key left o there
ObjAt(key) == IF key = ObjName THEN obj ELSE Absent
Stored(key, o) == IF key = ObjName THEN o ELSE obj

\* the store operation a primitive issues: on filename, and for the stat of
\* the enumeration on the entry listed
OpOf(p) ==
  LET key == IF p = "pstat" THEN ObjName ELSE Filename(req.path)
  IN CASE p = "delete" -> [RemoveOp EXCEPT !.key = key]
       [] p = "write" ->
            [WriteFullOp(Slice(Body(req.post_cl), off, body_len))
               EXCEPT !.key = key]
       [] p = "read" -> [ReadOp(Min(remains, ReadChunk), off) EXCEPT !.key = key]
       [] OTHER -> [StatOp EXCEPT !.key = key]

\* a permission test that lets every PUT through
PutAlwaysPermitted == TRUE

\* !urmp->allow_put is false
PutPermitted == "PUT" \in req.allow

\* uwsgi_rados_request after the stat returned v with the outputs size and
\* mtime: PUT, stat failure, DELETE, If-Modified-Since, PROPFIND, HEAD, GET
AfterStat(v, size, mtime) ==
  IF req.method = "PUT" THEN
    /\ UNCHANGED respBody
    /\ IF ~PutPermitted
       THEN GotoEnd(405) /\ prim' = "none" /\ UNCHANGED <<remains, off>>
       ELSE IF v = 0 THEN Call("delete") /\ UNCHANGED <<status, remains, off>>
       ELSE /\ pc' = "put_loop"
            /\ remains' = req.post_cl
            /\ off' = 0
            /\ prim' = "none"
            /\ UNCHANGED status
  ELSE IF v < 0 THEN
    /\ GotoEnd(IF v = -ENOENT THEN 404 ELSE 403)
    /\ prim' = "none"
    /\ UNCHANGED <<remains, off, respBody>>
  ELSE IF req.method = "DELETE" THEN
    /\ UNCHANGED <<remains, off, respBody>>
    /\ IF "DELETE" \notin req.allow THEN GotoEnd(405) /\ prim' = "none"
       ELSE Call("delete") /\ UNCHANGED status
  ELSE IF req.ims_len > 0 /\ mtime <= req.ims THEN
    \* 304 Not Modified: return without passing through end
    /\ Leave(304)
    /\ prim' = "none"
    /\ UNCHANGED <<remains, off, respBody>>
  ELSE IF req.method = "PROPFIND" THEN
    /\ prim' = "none"
    /\ UNCHANGED <<remains, off>>
    /\ IF "PROPFIND" \notin req.allow THEN GotoEnd(405) /\ UNCHANGED respBody
       ELSE GotoEnd(207) /\ respBody' = <<"/foo">>
  ELSE IF req.method \notin {"HEAD", "GET"} THEN
    /\ GotoEnd(405)
    /\ prim' = "none"
    /\ UNCHANGED <<remains, off, respBody>>
  ELSE IF req.method = "HEAD" THEN
    /\ GotoEnd(200)
    /\ prim' = "none"
    /\ UNCHANGED <<remains, off, respBody>>
  ELSE \* GET: uwsgi_rados_read(wsgi_req, ctx, filename, stat_size, timeout)
    /\ status' = 200
    /\ remains' = size
    /\ off' = 0
    /\ pc' = "read_loop"
    /\ prim' = "none"
    /\ UNCHANGED respBody

\* the primitive in progress returns v to its caller, which goes on; b is
\* what uwsgi_rados_read finds in its buf, size and mtime what the
\* dispatcher finds in stat_size and stat_mtime
ReturnWith(v, b, size, mtime) ==
  /\ urcb' = 0
  /\ evs' = <<>>
  /\ iret' = 0
  /\ UNCHANGED <<req, allowHdr>>
  /\ CASE prim = "stat" ->
            \* ret = uwsgi_rados_async_stat(...) / rados_stat(...)
            /\ ret' = v
            /\ AfterStat(v, size, mtime)
            /\ UNCHANGED <<body_len, plist>>
       [] prim = "delete" /\ req.method = "PUT" ->
            /\ IF v # 0 THEN GotoEnd(500) /\ UNCHANGED <<remains, off>>
               ELSE /\ pc' = "put_loop"
                    /\ remains' = req.post_cl
                    /\ off' = 0
                    /\ UNCHANGED status
            /\ prim' = "none"
            /\ UNCHANGED <<ret, body_len, respBody, plist>>
       [] prim = "delete" /\ req.method # "PUT" ->
            /\ GotoEnd(IF v # 0 THEN 403 ELSE 200)
            /\ prim' = "none"
            /\ UNCHANGED <<ret, remains, off, body_len, respBody, plist>>
       [] prim = "write" ->
            /\ IF v < 0 THEN GotoEnd(500) /\ UNCHANGED <<remains, off>>
               ELSE /\ pc' = "put_loop"
                    /\ remains' = remains - body_len
                    /\ off' = off + body_len
                    /\ UNCHANGED status
            /\ prim' = "none"
            /\ UNCHANGED <<ret, body_len, respBody, plist>>
       [] prim = "read" ->
            /\ IF v <= 0 THEN GotoEnd(status) /\ UNCHANGED <<remains, off, respBody>>
               ELSE /\ respBody' = respBody \o Slice(b, 0, v)
                    /\ remains' = remains - v
                    /\ off' = off + v
                    /\ pc' = "read_loop"
                    /\ UNCHANGED status
            /\ prim' = "none"
            /\ UNCHANGED <<ret, body_len, plist>>
       [] prim = "pstat" ->
            /\ IF v < 0 THEN GotoEnd(status) /\ UNCHANGED <<respBody, plist>>
               ELSE /\ respBody' = Append(respBody, Head(plist))
                    /\ plist' = Tail(plist)
                    /\ pc' = "pf_loop"
                    /\ UNCHANGED status
            /\ prim' = "none"
            /\ UNCHANGED <<ret, remains, off, body_len>>

Return(v) == ReturnWith(v, buf, stat_size, stat_mtime)

\* uwsgi_rados_request from the method ladder to the stat: OPTIONS, the
\* path "/", MKCOL, and the stat of every other request
Ladder(q) ==
  IF q.method = "OPTIONS" THEN
    /\ GotoEnd(200)
    /\ allowHdr' = AllowHeader(q.allow)
    /\ UNCHANGED <<pools, prim, respBody, plist>>
  ELSE IF q.root THEN
    IF "PROPFIND" \in q.allow /\ q.method = "PROPFIND"
    THEN \* uwsgi_rados_propfind(wsgi_req, ctx, NULL, ...)
         /\ status' = 207
         /\ IF q.depth = 0
            THEN /\ respBody' = <<"/">>
                 /\ plist' = <<>>
                 /\ pc' = "end"
            ELSE /\ respBody' = <<>>
                 /\ plist' = Listing
                 /\ pc' = "pf_loop"
         /\ UNCHANGED <<pools, prim, allowHdr>>
    ELSE /\ GotoEnd(405)
         /\ UNCHANGED <<pools, prim, allowHdr, respBody, plist>>
  ELSE IF q.method = "MKCOL" THEN
    /\ UNCHANGED <<prim, allowHdr, respBody, plist>>
    /\ IF "MKCOL" \notin q.allow THEN GotoEnd(405) /\ UNCHANGED pools
       ELSE \E r \in PoolCreate("foo") :
              /\ pools' = r.pools
              /\ GotoEnd(IF r.rv < 0
                         THEN IF r.rv = -EEXIST THEN 405 ELSE 500
                         ELSE 201)
  ELSE
    /\ Call("stat")
    /\ UNCHANGED <<pools, status, allowHdr, respBody, plist>>

\* uwsgi_rados_request from its entry: the early rejections, pipe(urio->fds)
\* when async is enabled, then the method ladder
ReqBegin(q) ==
  /\ pc = "idle"
  /\ async => Len(recs) < MaxArm
  /\ req' = q
  /\ UNCHANGED <<async, otherVars, rid, mutex, comp, recs, obj, urcb, iret, ret,
                 stat_size, stat_mtime, remains, off, body_len, buf, evs>>
  /\ IF q.early # "ok" THEN
       /\ Leave(CASE q.early = "nopath" -> 403 [] q.early = "noapp" -> 404
                  [] OTHER -> 0)
       /\ UNCHANGED <<fds, openFds, pipeBuf, pools, prim, allowHdr, respBody,
                      plist>>
     ELSE IF ~async THEN
       /\ Ladder(q)
       /\ UNCHANGED <<fds, openFds, pipeBuf>>
     ELSE IF Cardinality(FreeFds) < 2 THEN
       \* pipe() fails: uwsgi_500, return UWSGI_OK
       /\ Leave(500)
       /\ UNCHANGED <<fds, openFds, pipeBuf, pools, prim, allowHdr, respBody,
                      plist>>
     ELSE
       LET r == LowestFree(FreeFds)
           w == LowestFree(FreeFds \ {r})
       IN /\ fds' = <<r, w>>
          /\ openFds' = openFds \cup {r, w}
          /\ pipeBuf' = <<>>
          /\ Ladder(q)

\* uwsgi_rados_put: the head of the loop and the body read
PutLoop ==
  /\ pc = "put_loop"
  /\ UNCHANGED <<async, otherVars, slotVars, recs, storeVars, req, urcb, iret, ret,
                 stat_size, stat_mtime, remains, off, buf, allowHdr, respBody,
                 plist, evs>>
  /\ IF remains = 0
     THEN GotoEnd(201) /\ UNCHANGED <<prim, body_len>>
     ELSE \/ /\ body_len' = Min(remains, PutChunk)
             /\ Call("write")
             /\ UNCHANGED status
          \/ \* uwsgi_request_body_read fails: goto error
             GotoEnd(500) /\ UNCHANGED <<prim, body_len>>

\* uwsgi_rados_read: the head of the loop
ReadLoop ==
  /\ pc = "read_loop"
  /\ UNCHANGED <<async, otherVars, slotVars, recs, storeVars, req, urcb, iret, ret,
                 stat_size, stat_mtime, remains, off, body_len, buf, allowHdr,
                 respBody, plist, evs>>
  /\ IF remains = 0
     THEN GotoEnd(status) /\ UNCHANGED prim
     ELSE Call("read") /\ UNCHANGED status

\* uwsgi_rados_propfind on "/": the head of the enumeration loop
PfLoop ==
  /\ pc = "pf_loop"
  /\ UNCHANGED <<async, otherVars, slotVars, recs, storeVars, req, urcb, iret, ret,
                 stat_size, stat_mtime, remains, off, body_len, buf, allowHdr,
                 respBody, plist, evs>>
  /\ IF plist = <<>>
     THEN GotoEnd(status) /\ UNCHANGED prim
     ELSE Call("pstat") /\ UNCHANGED status

(* ---------------------- the synchronous primitives --------------------- *)
\* uwsgi.async < 1: rados_stat, rados_remove, rados_write_full, rados_read
SyncCall ==
  /\ pc = "call"
  /\ ~async
  /\ \E r \in Outcomes(OpOf(prim), ObjAt(OpOf(prim).key)) :
       /\ obj' = Stored(OpOf(prim).key, r.obj)
       /\ IF r.out /\ prim \in {"stat", "pstat"}
          THEN stat_size' = r.size /\ stat_mtime' = r.mtime
          ELSE UNCHANGED <<stat_size, stat_mtime>>
       /\ IF r.out /\ prim = "read" THEN buf' = r.data ELSE UNCHANGED buf
       /\ ReturnWith(r.rv, buf', stat_size', stat_mtime')
  /\ UNCHANGED <<async, otherVars, slotVars, recs, pools>>

(* ----------------------- the completion bridge ------------------------- *)
Recs == 1..Len(recs)

\* the urcb and completion of one uwsgi_rados_set_completion call
NewRec(r, created) ==
  [rid |-> r,
   mem |-> IF created THEN "alloc" ELSE "freed",   \* the urcb allocation
   frees |-> IF created THEN 0 ELSE 1,             \* free(urcb) calls
   hnd |-> IF created THEN "live" ELSE "none",     \* the completion handle
   rels |-> 0,                                     \* rados_aio_release calls
   stale |-> FALSE,                                \* queried after release
   aio |-> "none", op |-> StatOp, rv |-> 0,        \* the AIO at the store
   live |-> FALSE,                                 \* its request is running
   cb |-> "none", match |-> FALSE,                 \* uwsgi_rados_async_cb
   wrote |-> 0,                                    \* urio->rid when it wrote
   timedout |-> FALSE,      \* history: its await returned by the timeout
   late |-> FALSE,          \* history: its callback started after that
   uaf |-> FALSE]           \* history: the urcb was read after its free

\* a record nothing will read again keeps only its identity and the counts
\* of the calls made on it
Finished(r) ==
  /\ r.hnd # "live"
  /\ r.cb = "done" \/ r.aio \in {"none", "failed"}
Norm(rs) ==
  [k \in DOMAIN rs |->
     IF Finished(rs[k])
     THEN [rs[k] EXCEPT !.op = StatOp, !.rv = 0, !.match = FALSE,
                        !.live = FALSE, !.wrote = 0, !.timedout = FALSE,
                        !.late = FALSE, !.uaf = FALSE]
     ELSE rs[k]]

Free(rs, k) == [rs EXCEPT ![k].mem = "freed", ![k].frees = Min(@ + 1, 2)]

\* a read of the fields of urcb k
ReadUrcb(rs, k) == [rs EXCEPT ![k].uaf = @ \/ rs[k].mem = "freed"]

\* a release that is forgotten
ReleaseForgotten(rs, c) == rs

\* rados_aio_release(urio->comp)
Release(rs, c) ==
  [rs EXCEPT ![c].hnd = "released", ![c].rels = Min(@ + 1, 2), ![c].rv = 0]

\* rados_aio_is_safe_and_cb / rados_aio_get_return_value on urio->comp
Query(rs, c) == [rs EXCEPT ![c].stale = (rs[c].hnd # "live")]
\* a test of the completion that every completion passes
IsSafeAlways(c) == TRUE

\* rados_aio_is_safe_and_cb(urio->comp): the AIO is safe and its callback
\* has returned
IsSafeAndCb(c) == recs[c].aio = "done" /\ recs[c].cb = "done"

\* an increment of rid that does not take the mutex
ArmNoLock == TRUE

\* pthread_mutex_lock(&urio->mutex) of uwsgi_rados_set_completion
ArmLock == mutex = 0

\* a rid that is reused by the next arm
RidKept(r) == r

\* urio->rid++
RidNext(r) == r + 1

\* uwsgi_rados_set_completion
Arm ==
  /\ pc = "call"
  /\ async
  /\ Len(recs) < MaxArm
  /\ ArmLock
  /\ rid' = RidNext(rid)
  /\ \E created \in BOOLEAN :
       /\ recs' = Append(recs, NewRec(rid', created))
       /\ urcb' = IF created THEN Len(recs) + 1 ELSE 0
       /\ comp' = IF created THEN Len(recs) + 1 ELSE comp
  /\ pc' = "issue"
  /\ evs' = <<"arm">>
  /\ UNCHANGED <<async, otherVars, fds, mutex, openFds, pipeBuf, storeVars, req, prim,
                 iret, ret, stat_size, stat_mtime, remains, off, body_len, buf,
                 status, allowHdr, respBody, plist>>

\* the rados_aio_* call of the primitive (uwsgi_rados_delete checks urcb,
\* the other primitives read urcb->urio->comp unchecked)
Issue ==
  /\ pc = "issue"
  /\ UNCHANGED <<async, otherVars, slotVars, storeVars, stat_size, stat_mtime, buf>>
  /\ IF urcb = 0 THEN
       IF prim = "delete"
       THEN Return(-1) /\ UNCHANGED recs
       ELSE /\ pc' = "crashed"
            /\ UNCHANGED <<recs, req, prim, urcb, iret, ret, remains, off,
                           body_len, status, allowHdr, respBody, plist, evs>>
     ELSE
       /\ \/ /\ recs' = [recs EXCEPT ![urcb].aio = "inflight",
                                     ![urcb].op = OpOf(prim),
                                     ![urcb].live = TRUE]
             /\ iret' = 0
          \/ /\ recs' = [recs EXCEPT ![urcb].aio = "failed"]
             /\ iret' = -1
       /\ pc' = "await_entry"
       /\ evs' = Append(evs, "issue")
       /\ UNCHANGED <<req, prim, urcb, ret, remains, off, body_len, status,
                      allowHdr, respBody, plist>>

\* uwsgi_rados_wait_completion: urio = urcb->urio and the ret < 0 branch.
\* Reading a urcb the callback has freed is undefined: the worker goes on
\* with the slot or faults.
AwaitEntry ==
  /\ pc = "await_entry"
  /\ UNCHANGED <<async, otherVars, slotVars, storeVars, stat_size, stat_mtime, buf>>
  /\ \/ IF iret < 0
        THEN /\ recs' = Norm(Free(Release(ReadUrcb(recs, urcb), comp), urcb))
             /\ Return(-1)
        ELSE /\ pc' = "await_wait"
             /\ recs' = ReadUrcb(recs, urcb)
             /\ UNCHANGED <<req, prim, urcb, iret, ret, remains, off,
                            body_len, status, allowHdr, respBody, plist, evs>>
     \/ /\ recs[urcb].mem = "freed"
        /\ pc' = "crashed"
        /\ recs' = ReadUrcb(recs, urcb)
        /\ UNCHANGED <<req, prim, urcb, iret, ret, remains, off,
                       body_len, status, allowHdr, respBody, plist, evs>>

\* uwsgi.wait_read_hook(urio->fds[0], timeout)
AwaitWait ==
  /\ pc = "await_wait"
  /\ UNCHANGED <<async, otherVars, slotVars, storeVars, stat_size, stat_mtime, buf>>
  /\ IF pipeBuf # <<>>
     THEN /\ pc' = "await_read"
          /\ evs' = Append(evs, "wait")
          /\ UNCHANGED <<recs, req, prim, urcb, iret, ret, remains, off,
                         body_len, status, allowHdr, respBody, plist>>
     ELSE \* timeout
          /\ recs' = Norm(Release([recs EXCEPT ![urcb].timedout = TRUE], comp))
          /\ Return(-1)

\* an await that goes back to wait_read_hook when the byte it read was not
\* followed by a safe completion
AwaitReadAgain ==
  /\ pc = "await_read"
  /\ UNCHANGED <<async, otherVars, fds, rid, mutex, comp, openFds, storeVars, stat_size,
                 stat_mtime, buf>>
  /\ \/ /\ pipeBuf' = Tail(pipeBuf)
        /\ IF IsSafeAndCb(comp)
           THEN /\ recs' = Norm(Release(Query(recs, comp), comp))
                /\ Return(recs[comp].rv)
           ELSE /\ pc' = "await_wait"
                /\ evs' = Append(evs, "read")
                /\ UNCHANGED <<recs, req, prim, urcb, iret, ret, remains, off,
                               body_len, status, allowHdr, respBody, plist>>
     \/ /\ UNCHANGED pipeBuf
        /\ recs' = Norm(Release(recs, comp))
        /\ Return(-1)

\* read(urio->fds[0], &ack, 1), the completion's result and its release
AwaitRead ==
  /\ pc = "await_read"
  /\ UNCHANGED <<async, otherVars, fds, rid, mutex, comp, openFds, storeVars, stat_size,
                 stat_mtime, buf>>
  /\ \/ /\ pipeBuf' = Tail(pipeBuf)
        /\ recs' = Norm(Release(Query(recs, comp), comp))
        /\ Return(IF IsSafeAndCb(comp) THEN recs[comp].rv ELSE -1)
     \/ \* the read fails
        /\ UNCHANGED pipeBuf
        /\ recs' = Norm(Release(recs, comp))
        /\ Return(-1)

(* ------------------- the store's completion thread --------------------- *)
Awaiting == pc \in {"await_entry", "await_wait", "await_read"}

\* the locations the AIO of record k writes its outputs to are still those
\* of the caller: stat_size and stat_mtime of the running request, buf of
\* the uwsgi_rados_read (and the loop variables of the propfind) awaiting it
OutLive(k) ==
  /\ recs[k].live
  /\ (recs[k].op.kind = "read" \/ prim = "pstat") => (k = urcb /\ Awaiting)

\* the store completes the AIO of record k and schedules its callback; the
\* return value is kept for a handle that can still be asked for it
AioComplete(k) ==
  /\ Alive
  /\ recs[k].aio = "inflight"
  /\ \E r \in {Apply(recs[k].op, ObjAt(recs[k].op.key))} :
       /\ obj' = Stored(recs[k].op.key, r.obj)
       /\ recs' = [recs EXCEPT ![k].aio = "done", ![k].op = StatOp,
                               ![k].rv = IF recs[k].hnd = "live" THEN r.rv ELSE 0,
                               ![k].cb = "ready"]
       /\ IF r.out /\ OutLive(k) /\ recs[k].op.kind = "stat"
          THEN stat_size' = r.size /\ stat_mtime' = r.mtime
          ELSE UNCHANGED <<stat_size, stat_mtime>>
       /\ IF r.out /\ OutLive(k) /\ recs[k].op.kind = "read"
          THEN buf' = r.data
          ELSE UNCHANGED buf
  /\ UNCHANGED <<async, otherVars, slotVars, pools, pc, req, prim, urcb, iret, ret,
                 remains, off, body_len, status, allowHdr, respBody, plist,
                 evs>>

\* uwsgi_rados_async_cb: pthread_mutex_lock and the test urcb->rid != urio->rid
CbEnter(k) ==
  /\ Alive
  /\ recs[k].cb = "ready"
  /\ mutex = 0
  /\ mutex' = k
  /\ recs' = [ReadUrcb(recs, k) EXCEPT ![k].cb = "locked",
                                     ![k].match = (recs[k].rid = rid),
                                     ![k].late = recs[k].timedout]
  /\ UNCHANGED <<async, otherVars, fds, rid, comp, openFds, pipeBuf, storeVars, reqVars>>

\* uwsgi_rados_async_cb: write(urio->fds[1], "\1", 1) or the "too late" log,
\* and pthread_mutex_unlock
CbSignal(k) ==
  /\ Alive
  /\ recs[k].cb = "locked"
  /\ mutex' = 0
  /\ IF recs[k].match /\ fds[2] \in openFds \ otherFds
     THEN /\ pipeBuf' = Append(pipeBuf, [by |-> k, old |-> ~recs[k].live])
          /\ recs' = [recs EXCEPT ![k].cb = "unlocked", ![k].wrote = rid,
                                  ![k].match = FALSE]
          /\ UNCHANGED otherBuf
     ELSE IF recs[k].match /\ fds[2] = WriteEnd(otherFds)
     THEN \* the number now designates the pipe of the other slot
          /\ otherBuf' = Append(otherBuf, [by |-> k])
          /\ recs' = [recs EXCEPT ![k].cb = "unlocked", ![k].match = FALSE]
          /\ UNCHANGED pipeBuf
     ELSE \* dropped, or write() fails on a closed descriptor or a read end
          /\ UNCHANGED <<pipeBuf, otherBuf>>
          /\ recs' = [recs EXCEPT ![k].cb = "unlocked", ![k].match = FALSE]
  /\ UNCHANGED <<async, otherFds, fds, rid, comp, openFds, storeVars, reqVars>>

\* uwsgi_rados_async_cb: free(urcb) and the return to the store
CbFree(k) ==
  /\ Alive
  /\ recs[k].cb = "unlocked"
  /\ recs' = Norm([Free(recs, k) EXCEPT ![k].cb = "done"])
  /\ UNCHANGED <<async, otherVars, slotVars, storeVars, reqVars>>

(* --------------------------- request exit ------------------------------ *)
\* the handler has returned to the host: its frame is gone
Returned ==
  /\ pc' = "idle"
  /\ req' = NoReq
  /\ prim' = "none"
  /\ urcb' = 0
  /\ iret' = 0
  /\ ret' = -1
  /\ stat_size' = 0
  /\ stat_mtime' = 0
  /\ remains' = 0
  /\ off' = 0
  /\ body_len' = 0
  /\ buf' = <<>>
  /\ status' = 0
  /\ allowHdr' = <<>>
  /\ respBody' = <<>>
  /\ plist' = <<>>
  /\ evs' = <<>>
  /\ recs' = Norm([k \in Recs |-> [recs[k] EXCEPT !.live = FALSE]])

\* end: close(urio->fds[0]); close(urio->fds[1]); return UWSGI_OK.  The
\* bytes left in the pipe go with it; urio->fds keeps the closed numbers.
End ==
  /\ pc = "end"
  /\ IF async
     THEN openFds' = openFds \ {fds[1], fds[2]} /\ pipeBuf' = <<>>
     ELSE UNCHANGED <<openFds, pipeBuf>>
  /\ Returned
  /\ UNCHANGED <<async, otherVars, fds, rid, mutex, comp, storeVars>>

\* a return that does not pass through end: the early rejections, the
\* failed pipe() and 304 Not Modified
Finish ==
  /\ pc = "done"
  /\ Returned
  /\ UNCHANGED <<async, otherVars, slotVars, storeVars>>

\* rados_pool_create is a blocking call on the cluster handle that touches
\* neither the slot nor the object: with async on the requests are drawn
\* without the MKCOLs that get to it, which SpecMkcol explores
CreatesPool(q) == q.method = "MKCOL" /\ "MKCOL" \in q.allow /\ ~q.root
SlotRequests == {q \in Requests : ~CreatesPool(q)}

Next ==
  \/ \E q \in SlotRequests : ReqBegin(q)
  \/ \E q \in Requests \ SlotRequests : ~async /\ ReqBegin(q)
  \/ PutLoop
  \/ ReadLoop
  \/ PfLoop
  \/ SyncCall
  \/ Arm
  \/ Issue
  \/ AwaitEntry
  \/ AwaitWait
  \/ AwaitRead
  \/ \E k \in Recs : AioComplete(k)
  \/ \E k \in Recs : CbEnter(k)
  \/ \E k \in Recs : CbSignal(k)
  \/ \E k \in Recs : CbFree(k)
  \/ End
  \/ Finish

Spec == Init /\ [][Next]_vars

\* the request of another slot of urados.urio: pipe(urio->fds) at its
\* begin, which takes the two lowest free descriptors of the process
OtherBegin ==
  /\ async
  /\ otherFds = {}
  /\ Cardinality(FreeFds) >= 2
  /\ LET r == LowestFree(FreeFds)
         w == LowestFree(FreeFds \ {r})
     IN /\ otherFds' = {r, w}
        /\ openFds' = openFds \cup {r, w}
  /\ otherBuf' = <<>>
  /\ UNCHANGED <<async, fds, rid, mutex, comp, pipeBuf, recs, storeVars,
                 reqVars>>

\* the end of that request: both descriptors are closed
OtherEnd ==
  /\ otherFds # {}
  /\ openFds' = openFds \ otherFds
  /\ otherFds' = {}
  /\ otherBuf' = <<>>
  /\ UNCHANGED <<async, fds, rid, mutex, comp, pipeBuf, recs, storeVars,
                 reqVars>>

\* the slot together with the pipes of another slot's requests
StatRequests == {q \in Requests : q.method \in {"HEAD", "DELETE"}}
NextSlots ==
  \/ \E q \in StatRequests : ReqBegin(q)
  \/ SyncCall
  \/ Arm
  \/ Issue
  \/ AwaitEntry
  \/ AwaitWait
  \/ AwaitRead
  \/ \E k \in Recs : AioComplete(k)
  \/ \E k \in Recs : CbEnter(k)
  \/ \E k \in Recs : CbSignal(k)
  \/ \E k \in Recs : CbFree(k)
  \/ End
  \/ Finish
  \/ OtherBegin
  \/ OtherEnd

SpecSlots == Init /\ [][NextSlots]_vars

\* MKCOL requests of every kind between GET requests, async on or off
MkcolRequests == {q \in Requests : q.method \in {"MKCOL", "GET"}}

NextMkcol ==
  \/ \E q \in MkcolRequests : ReqBegin(q)
  \/ ReadLoop
  \/ SyncCall
  \/ Arm
  \/ Issue
  \/ AwaitEntry
  \/ AwaitWait
  \/ AwaitRead
  \/ \E k \in Recs : AioComplete(k)
  \/ \E k \in Recs : CbEnter(k)
  \/ \E k \in Recs : CbSignal(k)
  \/ \E k \in Recs : CbFree(k)
  \/ End
  \/ Finish

SpecMkcol == Init /\ [][NextMkcol]_vars

(* ------------------------------ the claims ----------------------------- *)
InPrimitive == pc \in {"issue", "await_entry", "await_wait", "await_read"}

\* C1: a wait_readable that returns readable does so on a byte written by a
\* callback of the running request, never on the byte of a callback whose
\* request has returned (an AIO an earlier request on the slot abandoned).
C1_NoWakeByEarlierRequest ==
  pc = "await_read" => ~Head(pipeBuf).old

\* C2: the callback of an AIO abandoned by a wait_readable timeout, when it
\* starts after the await has returned, finds urio->rid different from its
\* snapshot and writes no byte.
C2_AbandonedCallbackDrops ==
  \A k \in Recs :
    (recs[k].late /\ recs[k].cb \in {"unlocked", "done"})
      => (recs[k].wrote = 0)

\* C3: a callback writes its byte only while urio->rid equals its snapshot:
\* the rid it compared under the mutex is still the slot's rid at the write,
\* and a callback whose rid is less than the slot's writes nothing.
C3_WriteOnlyOnCurrentRid ==
  \A k \in Recs :
    /\ recs[k].wrote # 0 => recs[k].wrote = recs[k].rid
    /\ (recs[k].cb = "locked" /\ recs[k].match) => recs[k].rid = rid
    /\ (recs[k].cb = "locked" /\ recs[k].rid < rid) => ~recs[k].match

\* a callback found the slot's rid advanced past its own, and dropped
C3_Witness ==
  \E k \in Recs :
    recs[k].cb = "unlocked" /\ recs[k].rid < rid /\ recs[k].wrote = 0

\* C4: urio->rid is the number of arms made so far (one increment per arm,
\* on every path, and no other change), and the rid snapshots of successive
\* pending records are strictly increasing.
C4_RidStrictlyIncreasing ==
  /\ rid = Len(recs)
  /\ \A i, j \in Recs : i < j => recs[i].rid < recs[j].rid
  /\ \A k \in Recs : recs[k].rid <= rid

\* two arms were made, the first one's completion was not created or its
\* issue failed or its wait timed out
C4_Witness ==
  /\ Len(recs) = 2
  /\ recs[1].hnd = "none" \/ recs[1].aio = "failed" \/ recs[1].timedout
  /\ recs[2].rid = 2

\* C5: every pending record is freed at most once and is not read after it
\* was freed.
C5_FreedOnceNeverReadAfter ==
  \A k \in Recs : recs[k].frees <= 1 /\ ~recs[k].uaf

\* C6: a completion handle arm created is released exactly once by the
\* await of its primitive, on every path, and is not queried or released
\* after that release.
C6_ReleasedExactlyOnce ==
  \A k \in Recs :
    /\ recs[k].rels <= 1
    /\ ~recs[k].stale
    /\ recs[k].hnd = "none" => recs[k].rels = 0
    /\ recs[k].hnd = "released" => recs[k].rels = 1
    /\ recs[k].hnd = "live" => (pc = "crashed" \/ (InPrimitive /\ k = comp))

\* handles were released on the timeout path and on the path that read the
\* byte, and the worker is out of the primitive
C6_Witness ==
  /\ ~InPrimitive
  /\ pc # "crashed"
  /\ \E k \in Recs : recs[k].timedout /\ recs[k].rels = 1
  /\ \E k \in Recs : ~recs[k].timedout /\ recs[k].aio = "done" /\ recs[k].rels = 1

\* C7: an async primitive returns only once its AIO has completed, so at
\* most one AIO of the slot is outstanding at the store and none is while
\* the worker is outside a primitive.
C7_AtMostOneOutstanding ==
  /\ Cardinality({k \in Recs : recs[k].aio = "inflight"}) <= 1
  /\ ~InPrimitive => \A k \in Recs : recs[k].aio # "inflight"

\* C8: when the handler has returned, both ends of the pipe it created are
\* closed and urio->fds holds the invalid sentinel again.
C8_PipeClosedOutsideRequest ==
  pc \in {"idle", "done"} => (openFds = {} /\ fds = <<-1, -1>>)

\* C9: a PUT answered 201 leaves the whole request body as the object, and
\* a GET that read the whole object answers 200 with the object's bytes.
C9_PutGetRoundTrip ==
  /\ (pc = "end" /\ req.method = "PUT" /\ status = 201)
       => (obj.present /\ obj.data = Body(req.post_cl))
  /\ (pc = "end" /\ req.method = "GET" /\ status = 200 /\ remains = 0 /\ ~async)
       => respBody = obj.data

\* C10: a request whose method the mount does not permit never calls a
\* primitive: it issues no stat and no other operation against the I/O
\* context.
C10_DeniedMethodNoIo ==
  (req.method \in ExtMethods /\ req.method \notin req.allow)
    => pc \notin {"call", "issue", "await_entry", "await_wait", "await_read"}

\* the method is none the handler knows, or one the mount does not permit
Refused ==
  \/ req.method \notin {"OPTIONS", "GET", "HEAD"} \cup ExtMethods
  \/ req.method \in ExtMethods /\ req.method \notin req.allow

\* C11: a request that got to the method dispatch with an unknown method or
\* one the mount does not permit is answered 405, whatever the stat of the
\* object returned and whether or not If-Modified-Since is present.
C11_RefusedIs405 ==
  (pc \in {"end", "done"} /\ req.early = "ok" /\ req.method # "" /\ Refused
     /\ status # 500)
    => status = 405

\* C12: a permitted DELETE answers 200 when the stat found the object and the
\* remove succeeded, and 403 when the object did not exist (the case of the
\* second of two consecutive DELETEs).
C12_DeleteTwice ==
  (pc = "end" /\ ~async /\ req.method = "DELETE" /\ "DELETE" \in req.allow)
    => /\ (ret = 0 /\ ~obj.present) => status = 200
       /\ ret = -ENOENT => status = 403

RefusedPut == req.method = "PUT" /\ "PUT" \notin req.allow /\ ~req.root

\* C13: a PUT on a mount without allow_put that got to the dispatch is
\* answered 405 and issues no delete and no write; the object is not changed
\* while it runs, except by an operation an earlier request left in flight.
C13_RefusedPutFrame ==
  /\ [](RefusedPut =>
          /\ prim \notin {"delete", "write"}
          /\ pc # "put_loop"
          /\ pc = "end" => status = 405
          /\ \A k \in Recs : recs[k].live => recs[k].op.kind = "stat")
  /\ [][(RefusedPut /\ obj' # obj) =>
          \E k \in Recs : /\ ~recs[k].live
                          /\ recs[k].aio = "inflight"
                          /\ recs'[k].aio = "done"]_vars

\* a refused PUT of a key that has an object is answered, the object is there
C13_Witness ==
  RefusedPut /\ pc = "end" /\ status = 405 /\ obj.present /\ ret = 0

\* the methods a header value lists
Listed(h) == {h[i] : i \in DOMAIN h}

\* C14: an OPTIONS request that got to the dispatch is answered 200 with an
\* Allow header listing, once each, OPTIONS, GET, HEAD and exactly the
\* extension methods the mount permits, on "/" as on any other path, and it
\* calls no primitive: no stat and no other store operation.
C14_OptionsAllow ==
  req.method = "OPTIONS" =>
    /\ pc \in {"end", "done", "idle"}
    /\ prim = "none"
    /\ \A k \in Recs : ~recs[k].live
    /\ pc = "end" =>
         /\ status = 200
         /\ Listed(allowHdr) = {"OPTIONS", "GET", "HEAD"} \cup req.allow
         /\ Len(allowHdr) = 3 + Cardinality(req.allow)

\* OPTIONS on "/" of a mount that permits PUT and PROPFIND only, answered
C14_Witness ==
  /\ req.method = "OPTIONS" /\ req.root /\ pc = "end"
  /\ req.allow = {"PUT", "PROPFIND"}
  /\ allowHdr = <<"OPTIONS", "GET", "HEAD", "PUT", "PROPFIND">>

\* C15: on a mount with allow_mkcol a MKCOL of a name other than "/" that got
\* to the dispatch answers 201 when it creates the pool, 405 when the pool
\* exists (so 201 then 405 for two in a row, pools are never removed) and 500
\* on any other error; a MKCOL never stats the key and never arms an AIO.
C15_MkcolTwice ==
  /\ [](req.method = "MKCOL" =>
          /\ pc \in {"end", "done"}
          /\ prim = "none"
          /\ \A k \in Recs : ~recs[k].live)
  /\ [][/\ pools \subseteq pools'
        /\ (req.method = "MKCOL" \/ req'.method = "MKCOL") => rid' = rid
        /\ (pc = "idle" /\ pc' = "end" /\ CreatesPool(req')) =>
             \/ status' = 201 /\ "foo" \notin pools /\ pools' = pools \cup {"foo"}
             \/ status' = 405 /\ "foo" \in pools /\ pools' = pools
             \/ status' = 500 /\ "foo" \notin pools /\ pools' = pools]_vars

\* the second MKCOL of the pool on an async slot that has armed AIOs
C15_Witness ==
  /\ async /\ rid > 0
  /\ pc = "end" /\ CreatesPool(req) /\ status = 405 /\ "foo" \in pools

\* the primitive in progress hands a success to its caller in this step
Succeeds ==
  /\ InPrimitive
  /\ \/ prim = "stat" /\ ~InPrimitive' /\ pc' # "crashed" /\ ret' = 0
     \/ prim = "delete" /\ (pc' = "put_loop" \/ (pc' = "end" /\ status' = 200))
     \/ prim = "write" /\ pc' = "put_loop"
     \/ prim = "read" /\ pc' = "read_loop"

\* C16: every issuance of an async primitive makes its calls in one order,
\* arm, AIO issue, wait_read_hook, read of one byte, each once: the wait is
\* entered only after the arm and the issue of the same primitive and never
\* a second time, and a primitive that hands a success to its caller has
\* armed once, issued once, waited once and read exactly one byte.
C16_OneWaitPerIssuance ==
  /\ [](/\ pc = "issue" => evs = <<"arm">>
        /\ pc \in {"await_entry", "await_wait"} => evs = <<"arm", "issue">>
        /\ pc = "await_read" => evs = <<"arm", "issue", "wait">>
        /\ (~InPrimitive /\ pc # "crashed") => evs = <<>>)
  /\ [][Succeeds => /\ pc = "await_read"
                    /\ evs = <<"arm", "issue", "wait">>
                    /\ pipeBuf # <<>> /\ pipeBuf' = Tail(pipeBuf)
                    /\ urcb = Len(recs) /\ comp = urcb
                    /\ recs[urcb].aio = "done"]_vars

C16_Witness ==
  /\ async /\ rid = 2 /\ Len(recs) = 2
  /\ pc = "end" /\ req.method = "DELETE" /\ status = 200 /\ ~obj.present

\* C17: a PROPFIND for the mount's root path "/r/" with Depth 0 calls no
\* primitive (no stat, no enumeration) and is answered 207 with the single
\* entry "/" when the mount allows PROPFIND, 405 when it does not.
C17_MountRootPropfind ==
  (req.method = "PROPFIND" /\ req.path = MountRoot /\ req.depth = 0)
    => /\ prim = "none" /\ pc \notin {"call", "pf_loop"}
       /\ pc = "end" =>
            IF "PROPFIND" \in req.allow
            THEN status = 207 /\ respBody = <<"/">>
            ELSE status = 405

\* the await of the primitive in progress hands its caller a value other
\* than -1 in this step, as far as the caller shows it
HandsValue ==
  /\ pc \in {"await_entry", "await_wait", "await_read"}
  /\ \/ prim = "stat" /\ ~InPrimitive' /\ pc' # "crashed" /\ ret' # -1
     \/ prim = "delete" /\ (pc' = "put_loop" \/ (pc' = "end" /\ status' = 200))
     \/ prim = "write" /\ pc' = "put_loop"
     \/ prim = "read" /\ pc' = "read_loop"

\* C18: when uwsgi_rados_wait_completion returns a value other than -1, the
\* completion it asked is the one of its own issuance, the AIO of that
\* issuance has completed and the value is that AIO's return value, whatever
\* byte woke the wait (for an await whose urcb had not been freed when it
\* read urcb->urio).
C18_ValueOfOwnAio ==
  [][(HandsValue /\ ~recs[urcb].uaf)
       => /\ pc = "await_read" /\ comp = urcb
          /\ recs[urcb].aio = "done" /\ recs[urcb].hnd = "live"
          /\ prim = "stat" => ret' = recs[urcb].rv
          /\ prim = "delete" => recs[urcb].rv = 0
          /\ prim = "write" => recs[urcb].rv >= 0
          /\ prim = "read" => (recs[urcb].rv > 0 /\ off' = off + recs[urcb].rv)]_vars

\* the stat returned its AIO's value while the byte of its own callback is
\* still in the pipe: the wait was ended by the byte of an earlier issuance
C18_Witness ==
  /\ async /\ pc = "end" /\ req.method = "HEAD" /\ status = 200 /\ ret = 0
  /\ Len(recs) = 2 /\ comp = 2
  /\ pipeBuf # <<>> /\ Head(pipeBuf).by = comp

\* C19: no callback of the slot writes its byte into the pipe of another
\* slot's request: a descriptor number the slot has closed and another
\* request's pipe() has been given receives no byte from the slot's callbacks.
C19_NoStrayByte == otherBuf = <<>>

\* C20: outside the await of its own primitive no AIO in flight holds the
\* primitive's locations (size and mtime of a stat, the buffer of a read,
\* the chunk of a write), and the store writes the outputs of a stat or a
\* read only while the primitive that issued it is still in its await.
C20_NoDanglingOutput ==
  /\ [](\A k \in Recs :
          (recs[k].aio = "inflight"
             /\ recs[k].op.kind \in {"stat", "read", "write_full"})
            => (k = urcb /\ Awaiting))
  /\ [][\A k \in Recs :
          (/\ recs[k].aio = "inflight" /\ recs'[k].aio = "done"
           /\ recs[k].op.kind \in {"stat", "read"}
           /\ Apply(recs[k].op, ObjAt(recs[k].op.key)).out)
            => (k = urcb /\ Awaiting)]_vars

\* C21: when uwsgi_rados_set_completion returns NULL, the primitive that
\* called it returns an error to its caller in its next step: it issues no
\* AIO, does not enter the await and does not fault on the missing urcb.
C21_ArmFailureIsAnError ==
  [][(pc = "issue" /\ urcb = 0)
       => /\ pc' # "crashed" /\ ~InPrimitive'
          /\ \A k \in Recs : recs'[k].aio = recs[k].aio
          /\ prim = "stat" => ret' = -1
          /\ prim # "stat" => pc' = "end"]_vars
====
